---- MODULE Spec2Model ----
(***************************************************************************)
(* Index maintenance of the Sidekick plugin (src/src/main.ts): the bulk    *)
(* pass startEmbeddingProcess, the debounced incremental pass of           *)
(* handleFileChange, processFiles, the user's Stop and Pause, the          *)
(* embedding store (storageService) and the date index (DateIndex.ts).     *)
(* Every await of the code is a step boundary: one action is the code that *)
(* runs between two awaits of one pass, or one whole synchronous handler.  *)
(***************************************************************************)
EXTENDS Integers, Sequences, FiniteSets, TLC

\* ---------------------------------------------------------------- bounds
\* Number of indexing passes that may be in flight at once.
MaxPasses == 2
\* Number of timer handles the host hands out before reusing one.
MaxTimers == 2
\* Number of inputs the environment makes: file events, commands, buttons.
MaxInputs == 3
\* Number of inputs the environment makes while the pass of plugin load runs.
MaxLoadInputs == 2
\* filterByDate is tried on this many days around 1970-01-01.
MaxFilterDays == 3
\* The calendar is worked out for MaxYears years from FirstYear on.
FirstYear == 2023
MaxYears == 3
\* Relative date ranges are tried on this many consecutive days.
MaxNowDays == 100
\* The embedding store holds this many records when a search is made.
MaxRecords == 6
\* Link graphs have this many notes, each with at most MaxLinks links.
MaxNotes == 4
MaxLinks == 2
\* A semantic search hands the date-aware search at most this many results.
MaxResults == 2
\* The user sends at most this many messages to the chat view.
MaxTurns == 3
\* The staleness test is tried on the timestamps 0, 500, ..., 500 * MaxHalfSeconds.
MaxHalfSeconds == 6
\* History counters stop counting here.
Plenty == 2
\* The clock runs over the whole seconds 1 .. MaxSeconds (in milliseconds).
MaxSeconds == 2

\* -------------------------------------------------------- program constants
\* Math.floor(x / 1000): timestamps are compared in whole seconds.
MsPerSecond == 1000

\* ------------------------------------------------------------- documents
\* A path is its sequence of characters: "n" and "x/n".
DocN == <<"n">>
DocXN == <<"x", "/", "n">>
Docs == {DocN, DocXN}
\* The order in which vault.getMarkdownFiles() lists the documents.
DocOrder == <<DocN, DocXN>>
NoDoc == <<>>
\* The folder prefix the user may configure under "Excluded folders".
FolderX == <<"x", "/">>

Times == {MsPerSecond * i : i \in 1..MaxSeconds}
FirstTime == MsPerSecond

Slots == 1..MaxPasses
TimerIds == 1..MaxTimers

VARIABLES
    isIndexing,          \* main.ts:64
    pauseIndexing,       \* main.ts:65
    stopIndexing,        \* main.ts:66
    pendingFileChanges,  \* main.ts:72, a set of paths
    fileChangeTimeout,   \* main.ts:73, the last handle setTimeout returned (0: null)
    armed,               \* the host's timers that are set and have not fired
    vault,               \* the host's documents: [live, mtime] per path
    store,               \* the embedding store: [has, content, lastModified] per key
    dateStore,           \* the date index: [has, modifiedAt, lastIndexed] per key
    apiKey,              \* settings.openAIApiKey is set
    excludedFolders,     \* settings.excludedFolders
    passes,              \* the indexing passes in flight, one per slot
    layoutReady,         \* workspace.onLayoutReady has run its callbacks
    inputs,              \* inputs the environment has made so far
    burst,               \* history: the change events that set the timer last
                         \* set (n of them, for docs), and the passes it started
    queued,              \* history: documents queued while a bulk pass ran
    staleIn,             \* input of the staleness test taken alone
    staleOut,            \* its result
    args,                \* the arguments of a call of a search or date service
    result,              \* <<>> while the call runs, then <<what it returned>>
    currentRequest,      \* ChatSidebarView.ts:46, a controller or 0 (null)
    turns,               \* the calls of handleUserMessage made so far
    controllers,         \* the AbortControllers created: aborted or not
    viewOpen             \* the chat view has not been closed

vars == <<isIndexing, pauseIndexing, stopIndexing, pendingFileChanges,
          fileChangeTimeout, armed, vault, store, dateStore, apiKey,
          excludedFolders, passes, layoutReady, inputs, burst, queued, staleIn,
          staleOut, args, result, currentRequest, turns, controllers,
          viewOpen>>

flagVars == <<isIndexing, pauseIndexing, stopIndexing>>
timerVars == <<pendingFileChanges, fileChangeTimeout, armed>>
settingVars == <<apiKey, excludedFolders>>
staleVars == <<staleIn, staleOut>>
callVars == <<args, result>>
chatVars == <<currentRequest, turns, controllers, viewOpen>>
\* What the index maintainer never touches.
otherVars == <<staleVars, callVars, chatVars>>

\* ---------------------------------------------------------------- helpers
\* String.prototype.startsWith on paths.
StartsWith(path, prefix) ==
    /\ Len(prefix) <= Len(path)
    /\ SubSeq(path, 1, Len(prefix)) = prefix

\* settings.excludedFolders.some(folder => file.path.startsWith(folder))
IsExcluded(path, folders) ==
    \E f \in folders : StartsWith(path, f)

\* Math.floor(ms / 1000)
FloorSeconds(ms) == ms \div MsPerSecond

NoRecord == [has |-> FALSE, content |-> 0, lastModified |-> 0]
NoDates == [has |-> FALSE, modifiedAt |-> 0, lastIndexed |-> 0]

\* The comparison in raw milliseconds.
NeedsProcessingRaw(mtime, existing) ==
    IF ~existing.has
        THEN TRUE
        ELSE mtime > existing.lastModified

\* The filter callback of getFilesToProcess: new, or modified by whole seconds.
NeedsProcessing(mtime, existing) ==
    IF ~existing.has
        THEN TRUE
        ELSE FloorSeconds(mtime) > FloorSeconds(existing.lastModified)

\* needsIndexing with >= for >.
NeedsIndexingOrEqual(mtime, metadata) ==
    IF ~metadata.has
        THEN TRUE
        ELSE FloorSeconds(mtime) >= FloorSeconds(metadata.lastIndexed)

\* DateIndex.needsIndexing
NeedsIndexing(mtime, metadata) ==
    IF ~metadata.has
        THEN TRUE
        ELSE FloorSeconds(mtime) > FloorSeconds(metadata.lastIndexed)

\* getFilesToProcess(files): not excluded, and new or modified.
GetFilesToProcess(files, folders, vlt, st) ==
    {d \in files : /\ ~IsExcluded(d, folders)
                   /\ NeedsProcessing(vlt[d].mtime, st[d])}

\* getFilesToProcessDates(files): not excluded, and needsIndexing.
GetFilesToProcessDates(files, folders, vlt, dst) ==
    {d \in files : /\ ~IsExcluded(d, folders)
                   /\ NeedsIndexing(vlt[d].mtime, dst[d])}

\* vault.getMarkdownFiles()
GetMarkdownFiles(vlt) == {d \in Docs : vlt[d].live}

\* The first document of a set of files, in the vault's listing order.
FirstOf(files) ==
    LET s == SelectSeq(DocOrder, LAMBDA d : d \in files) IN
    IF s = <<>> THEN NoDoc ELSE Head(s)

\* Date.now(): not before any modification the vault has recorded.
Clock(vlt) ==
    {t \in Times : \A d \in Docs : t >= vlt[d].mtime}

\* ------------------------------------------------------------------ passes
\* kind: "none" (free slot), "bulk" (startEmbeddingProcess), "incr" (the
\* timer callback of handleFileChange), "load" (initializeEmbeddings).
\* pc: the await the pass is suspended at. files/dates: the files still to
\* embed/to date-index. cur, content, lastModified: the file in hand, the
\* content read, the mtime put in the record. snapshot: the files the pass
\* listed when it began. History: stopped (Stop was issued during the pass),
\* authFailed (a provider call failed on the API key), begun (the files taken
\* so far), last (how the last file ended: "saved", or "unread", "unembedded",
\* "unsaved" after the step that failed).
FreePass ==
    [kind |-> "none", pc |-> "none", files |-> {}, dates |-> {},
     cur |-> NoDoc, content |-> 0, lastModified |-> 0,
     snapshot |-> {}, stopped |-> FALSE, authFailed |-> FALSE,
     begun |-> {}, last |-> "none"]

FreeSlots == {p \in Slots : passes[p].kind = "none"}
\* The slot a new pass takes.
NewSlot == CHOOSE p \in FreeSlots : \A q \in FreeSlots : p <= q

NoBurst == [n |-> 0, docs |-> {}, starts |-> 0]
Count(n) == IF n < Plenty THEN n + 1 ELSE Plenty

FirstRecord == [has |-> TRUE, content |-> FirstTime, lastModified |-> FirstTime]
FirstDates == [has |-> TRUE, modifiedAt |-> FirstTime, lastIndexed |-> FirstTime]

\* No call of a search or date service is under way.
NoCall ==
    /\ args = <<>>
    /\ result = <<>>

\* The chat view has no request (ChatSidebarView.ts:46).
NoChat ==
    /\ currentRequest = 0
    /\ turns = <<>>
    /\ controllers = <<>>
    /\ viewOpen = TRUE

\* What construction and loadSettings leave, whatever the stores persisted
\* from earlier sessions: no pass, no timer, every flag false (main.ts:64-73).
Constructed ==
    /\ inputs \in 0..MaxInputs
    /\ isIndexing = FALSE
    /\ pauseIndexing = FALSE
    /\ stopIndexing = FALSE
    /\ pendingFileChanges = {}
    /\ fileChangeTimeout = 0
    /\ armed = {}
    /\ vault = [d \in Docs |-> [live |-> TRUE, mtime |-> FirstTime]]
    /\ store \in {[d \in Docs |-> NoRecord], [d \in Docs |-> FirstRecord]}
    /\ dateStore \in {[d \in Docs |-> NoDates], [d \in Docs |-> FirstDates]}
    /\ apiKey \in BOOLEAN
    /\ excludedFolders \in {{}, {FolderX}}
    /\ passes = [p \in Slots |-> FreePass]
    /\ burst = NoBurst
    /\ queued = {}
    /\ staleIn = [mtime |-> 0, existing |-> NoRecord]
    /\ staleOut = "none"
    /\ NoCall
    /\ NoChat

\* The plugin is loaded: the layout is ready, the listeners are registered and
\* initializeEmbeddings has run to its end.
Init ==
    /\ Constructed
    /\ layoutReady = TRUE
    /\ inputs = 0

\* The plugin is constructed and the layout is not ready yet (main.ts:76-106).
InitLoad ==
    /\ Constructed
    /\ layoutReady = FALSE
    /\ inputs = MaxInputs - MaxLoadInputs

\* ---------------------------------------------------------- storageService
\* A write that stores the timestamp even when it fails.
SaveEmbeddingTorn(st, id, content, lastModified, ok) ==
    [st EXCEPT ![id] = [has |-> TRUE,
                        content |-> IF ok THEN content ELSE st[id].content,
                        lastModified |-> lastModified]]

\* saveEmbedding: one setItem of the whole record; a failed write stores nothing.
SaveEmbedding(st, id, content, lastModified, ok) ==
    IF ok
        THEN [st EXCEPT ![id] = [has |-> TRUE, content |-> content,
                                 lastModified |-> lastModified]]
        ELSE st

\* The orphan cleanup of startEmbeddingProcess: deleteEmbedding for every
\* record whose id is the path of none of the files.
CleanOrphans(st, files) ==
    [d \in Docs |-> IF st[d].has /\ d \notin files THEN NoRecord ELSE st[d]]

\* DateIndex.indexNote: read, extract, lastIndexed = Date.now(), setItem.
IndexNote(dst, id, mtime, now) ==
    [dst EXCEPT ![id] = [has |-> TRUE, modifiedAt |-> mtime, lastIndexed |-> now]]

\* ------------------------------------------------------------- inputs
\* One more input of the environment, while the bound allows it.
Input ==
    /\ inputs < MaxInputs
    /\ inputs' = inputs + 1

\* ------------------------------------------------------ the end of a pass
\* A pass that has returned or thrown leaves its slot.
Leave(p) == passes' = [passes EXCEPT ![p] = FreePass]

\* -------------------------------------------------- startEmbeddingProcess
\* main.ts:313-326: the re-entrancy check, the flags, the list of files.
StartEffects ==
    IF isIndexing
        THEN UNCHANGED <<isIndexing, stopIndexing, passes>>
        ELSE /\ FreeSlots # {}
             /\ isIndexing' = TRUE
             /\ stopIndexing' = FALSE
             /\ passes' = [passes EXCEPT ![NewSlot] =
                    [FreePass EXCEPT !.kind = "bulk", !.pc = "cleanup",
                                     !.snapshot = GetMarkdownFiles(vault)]]

\* The timer of scheduleEmbeddingUpdates, the command "Start Indexing Notes"
\* and the settings tab's button "Index un-indexed notes" all call it.
StartEmbeddingProcess ==
    /\ layoutReady
    /\ Input
    /\ StartEffects
    /\ UNCHANGED <<pauseIndexing, timerVars, vault, store, dateStore,
                   settingVars, layoutReady, burst, queued, otherVars>>

\* main.ts:326-354: orphan cleanup, getFilesToProcess, the API key check.
BulkPrepare(p) ==
    /\ passes[p].kind = "bulk"
    /\ passes[p].pc = "cleanup"
    /\ store' = CleanOrphans(store, passes[p].snapshot)
    /\ IF ~apiKey
          THEN Leave(p)
          ELSE passes' = [passes EXCEPT ![p].pc = "loop",
                   ![p].files = GetFilesToProcess(passes[p].snapshot,
                                    excludedFolders, vault, store')]
    /\ UNCHANGED <<flagVars, timerVars, vault, dateStore, settingVars,
                   layoutReady, inputs, burst, queued, otherVars>>

\* The pass takes its next file and vault.read(file) settles (main.ts:368
\* and 498), with the content the document has now. A failed read throws out
\* of startEmbeddingProcess, whose read is outside the try; processFiles
\* catches it and goes on to the next file.
BeginFile(p) ==
    LET file == FirstOf(passes[p].files) IN
    \E ok \in BOOLEAN :
       /\ ok => vault[file].live
       /\ IF ok
             THEN passes' = [passes EXCEPT ![p].cur = file,
                                 ![p].files = passes[p].files \ {file},
                                 ![p].begun = passes[p].begun \cup {file},
                                 ![p].content = vault[file].mtime,
                                 ![p].pc = "embedding"]
             ELSE IF passes[p].kind = "bulk"
                     THEN Leave(p)
                     ELSE passes' = [passes EXCEPT ![p].cur = file,
                              ![p].files = passes[p].files \ {file},
                              ![p].begun = passes[p].begun \cup {file},
                              ![p].last = "unread"]

\* main.ts:406-417: the code after the loop of startEmbeddingProcess.
BulkFinish(p) ==
    /\ isIndexing' = FALSE
    /\ Leave(p)

\* main.ts:356-365: the head of the bulk loop, up to the pause wait.
BulkLoopHead(p) ==
    /\ passes[p].kind = "bulk"
    /\ passes[p].pc = "loop"
    /\ IF passes[p].files = {} \/ stopIndexing
          THEN /\ BulkFinish(p)
               /\ UNCHANGED <<pauseIndexing, stopIndexing>>
          ELSE /\ IF pauseIndexing
                     THEN passes' = [passes EXCEPT ![p].pc = "paused"]
                     ELSE BeginFile(p)
               /\ UNCHANGED flagVars
    /\ UNCHANGED <<timerVars, vault, store, dateStore, settingVars,
                   layoutReady, inputs, burst, queued, otherVars>>

\* main.ts:363-365: one poll of the pause wait; stopIndexing is not read here.
BulkPollPause(p) ==
    /\ passes[p].kind = "bulk"
    /\ passes[p].pc = "paused"
    /\ IF pauseIndexing
          THEN UNCHANGED passes
          ELSE BeginFile(p)
    /\ UNCHANGED <<flagVars, timerVars, vault, store, dateStore, settingVars,
                   layoutReady, inputs, burst, queued, otherVars>>

\* ------------------------------------------------- one file of either loop
\* What generateEmbedding settles with: the vector, an error whose message
\* names the API key (embeddingHelper: status 403), or any other error.
Outcomes == {"ok", "auth", "error"}

\* The catch of startEmbeddingProcess (main.ts:394-403) stops the pass on an
\* error message that includes 'API key'.
BulkStopsOn(outcome) == outcome = "auth"

\* generateEmbedding settles (main.ts:370-377 and 499-504). On success the
\* record is built, lastModified read from file.stat, and saveEmbedding called.
EmbedDone(p) ==
    /\ passes[p].pc = "embedding"
    /\ \E outcome \in Outcomes :
          IF outcome = "ok"
             THEN /\ passes' = [passes EXCEPT ![p].pc = "saving",
                           ![p].lastModified = vault[passes[p].cur].mtime]
                  /\ UNCHANGED flagVars
             ELSE IF passes[p].kind = "bulk" /\ BulkStopsOn(outcome)
                     THEN /\ stopIndexing' = TRUE
                          /\ BulkFinish(p)
                          /\ UNCHANGED pauseIndexing
                     ELSE /\ passes' = [passes EXCEPT ![p].pc = "loop",
                                   ![p].content = 0, ![p].last = "unembedded",
                                   ![p].authFailed =
                                       passes[p].authFailed \/ outcome = "auth"]
                          /\ UNCHANGED flagVars
    /\ UNCHANGED <<timerVars, vault, store, dateStore, settingVars,
                   layoutReady, inputs, burst, queued, otherVars>>

\* saveEmbedding settles (main.ts:373-393 and 500-508); the pass goes on to
\* the head of its loop, processFiles after its one-second wait.
SaveDone(p) ==
    /\ passes[p].pc = "saving"
    /\ \E ok \in BOOLEAN :
          /\ store' = SaveEmbedding(store, passes[p].cur, passes[p].content,
                                    passes[p].lastModified, ok)
          /\ passes' = [passes EXCEPT ![p].pc = "loop",
                 ![p].content = 0, ![p].lastModified = 0,
                 ![p].last = IF ok THEN "saved" ELSE "unsaved"]
    /\ UNCHANGED <<flagVars, timerVars, vault, dateStore, settingVars,
                   layoutReady, inputs, burst, queued, otherVars>>

\* ------------------------------------------------------------ processFiles
\* main.ts:463-466 and 211-214: both lists of files to process are computed;
\* processFiles returns at once without an API key (main.ts:490-493).
Prepare(p) ==
    /\ passes[p].kind \in {"incr", "load"}
    /\ passes[p].pc = "prepare"
    /\ passes' = [passes EXCEPT ![p].pc = "loop",
           ![p].files = IF apiKey
                           THEN GetFilesToProcess(passes[p].snapshot,
                                    excludedFolders, vault, store)
                           ELSE {},
           ![p].dates = GetFilesToProcessDates(passes[p].snapshot,
                            excludedFolders, vault, dateStore)]
    /\ UNCHANGED <<flagVars, timerVars, vault, store, dateStore, settingVars,
                   layoutReady, inputs, burst, queued, otherVars>>

\* main.ts:496: the head of the loop of processFiles.
FilesLoopHead(p) ==
    /\ passes[p].kind \in {"incr", "load"}
    /\ passes[p].pc = "loop"
    /\ IF passes[p].files = {}
          THEN passes' = [passes EXCEPT ![p].pc = "dates"]
          ELSE BeginFile(p)
    /\ UNCHANGED <<flagVars, timerVars, vault, store, dateStore, settingVars,
                   layoutReady, inputs, burst, queued, otherVars>>

\* The end of the timer callback (main.ts:481-484, the finally) or of
\* initializeEmbeddings, which sets no flag.
FilesFinish(p) ==
    /\ Leave(p)
    /\ IF passes[p].kind = "incr"
          THEN /\ isIndexing' = FALSE
               /\ pendingFileChanges' = {}
          ELSE UNCHANGED <<isIndexing, pendingFileChanges>>

\* main.ts:474-478 and 223-227: dateIndex.indexNote for the next file, or the
\* end of the pass. An indexNote that throws ends the pass.
DateStep(p) ==
    /\ passes[p].kind \in {"incr", "load"}
    /\ passes[p].pc = "dates"
    /\ IF passes[p].dates = {}
          THEN /\ FilesFinish(p)
               /\ UNCHANGED dateStore
          ELSE LET file == FirstOf(passes[p].dates) IN
               \E ok \in BOOLEAN :
                  /\ ok => vault[file].live
                  /\ IF ok
                        THEN /\ \E now \in Clock(vault) :
                                   dateStore' = IndexNote(dateStore, file,
                                                    vault[file].mtime, now)
                             /\ passes' = [passes EXCEPT
                                    ![p].dates = passes[p].dates \ {file}]
                             /\ UNCHANGED <<isIndexing, pendingFileChanges>>
                        ELSE /\ FilesFinish(p)
                             /\ UNCHANGED dateStore
    /\ UNCHANGED <<pauseIndexing, stopIndexing, fileChangeTimeout, armed, vault,
                   store, settingVars, layoutReady, inputs, burst, queued, otherVars>>

\* ----------------------------------------------------------- plugin load
\* main.ts:107-116 and 184-202: the layout is ready; initializeEmbeddings
\* lists the files and the change listeners are registered.
InitializeEmbeddings ==
    /\ ~layoutReady
    /\ layoutReady' = TRUE
    /\ passes' = [passes EXCEPT ![NewSlot] =
           [FreePass EXCEPT !.kind = "load", !.pc = "prepare",
                            !.snapshot = GetMarkdownFiles(vault)]]
    /\ UNCHANGED <<flagVars, timerVars, vault, store, dateStore, settingVars,
                   inputs, burst, queued, otherVars>>

\* ------------------------------------------------------- handleFileChange
\* A clearTimeout that cancels nothing.
ClearTimeoutNot(timers, handle) == timers

\* clearTimeout(handle): the timer, if still set, is cancelled.
ClearTimeout(timers, handle) == timers \ {handle}

\* The handle setTimeout returns: one that names no timer still set.
FreeTimers(timers) == {t \in TimerIds : t \notin timers}
NewTimer(timers) ==
    CHOOSE t \in FreeTimers(timers) : \A u \in FreeTimers(timers) : t <= u

\* A bulk pass is in flight.
BulkRunning == \E p \in Slots : passes[p].kind = "bulk"

\* main.ts:435-451: queue the path; unless a pass is running, reset the timer.
HandleFileChange(path) ==
    /\ pendingFileChanges' = pendingFileChanges \cup {path}
    /\ IF isIndexing
          THEN /\ UNCHANGED <<fileChangeTimeout, armed, burst>>
               /\ queued' = IF BulkRunning THEN queued \cup {path} ELSE queued
          ELSE LET cleared == ClearTimeout(armed, fileChangeTimeout) IN
               /\ FreeTimers(cleared) # {}
               /\ fileChangeTimeout' = NewTimer(cleared)
               /\ armed' = cleared \cup {NewTimer(cleared)}
               /\ burst' = IF armed # {}
                              THEN [n |-> Count(burst.n),
                                    docs |-> burst.docs \cup {path},
                                    starts |-> 0]
                              ELSE [n |-> 1, docs |-> {path}, starts |-> 0]
               /\ UNCHANGED queued

\* The vault's 'modify' event (main.ts:186-190): the document is saved at the
\* clock's time, which the mtime's resolution may leave at the same value.
FileModify(d) ==
    /\ layoutReady
    /\ Input
    /\ vault[d].live
    /\ \E t \in Times :
          /\ t >= vault[d].mtime
          /\ vault' = [vault EXCEPT ![d].mtime = t]
    /\ HandleFileChange(d)
    /\ UNCHANGED <<flagVars, store, dateStore, settingVars, passes,
                   layoutReady, otherVars>>

\* The vault's 'create' event (main.ts:192-196).
FileCreate(d) ==
    /\ layoutReady
    /\ Input
    /\ ~vault[d].live
    /\ \E t \in Times :
          /\ t >= vault[d].mtime
          /\ vault' = [vault EXCEPT ![d] = [live |-> TRUE, mtime |-> t]]
    /\ HandleFileChange(d)
    /\ UNCHANGED <<flagVars, store, dateStore, settingVars, passes,
                   layoutReady, otherVars>>

\* The user deletes a document; the plugin listens to no 'delete' event.
FileDelete(d) ==
    /\ layoutReady
    /\ Input
    /\ vault[d].live
    /\ vault' = [vault EXCEPT ![d].live = FALSE]
    /\ UNCHANGED <<flagVars, timerVars, store, dateStore, settingVars, passes,
                   layoutReady, burst, queued, otherVars>>

\* main.ts:451-462: the debounce timer fires, five seconds after it was set.
TimerFire(t) ==
    /\ t \in armed
    /\ armed' = armed \ {t}
    /\ IF pendingFileChanges # {} /\ ~isIndexing
          THEN /\ FreeSlots # {}
               /\ isIndexing' = TRUE
               /\ passes' = [passes EXCEPT ![NewSlot] =
                      [FreePass EXCEPT !.kind = "incr", !.pc = "prepare",
                          !.snapshot = GetMarkdownFiles(vault)
                                           \cap pendingFileChanges]]
               /\ burst' = [burst EXCEPT !.starts = Count(burst.starts)]
               /\ queued' = queued \ pendingFileChanges
          ELSE UNCHANGED <<isIndexing, passes, burst, queued>>
    /\ UNCHANGED <<pauseIndexing, stopIndexing, pendingFileChanges,
                   fileChangeTimeout, vault, store, dateStore, settingVars,
                   layoutReady, inputs, otherVars>>

\* ------------------------------------------------------------ the user
\* main.ts:424-433, offered by the settings tab while isIndexing
\* (settings-tab.ts:194-200).
StopEmbedding ==
    /\ isIndexing
    /\ Input
    /\ stopIndexing' = TRUE
    /\ isIndexing' = FALSE
    /\ passes' = [p \in Slots |->
           IF passes[p].kind = "bulk"
              THEN [passes[p] EXCEPT !.stopped = TRUE]
              ELSE passes[p]]
    /\ UNCHANGED <<pauseIndexing, timerVars, vault, store, dateStore,
                   settingVars, layoutReady, burst, queued, otherVars>>

\* main.ts:419-422
PauseEmbedding ==
    /\ isIndexing
    /\ Input
    /\ ~pauseIndexing
    /\ pauseIndexing' = TRUE
    /\ UNCHANGED <<isIndexing, stopIndexing, timerVars, vault, store, dateStore,
                   settingVars, passes, layoutReady, burst, queued, otherVars>>

\* DateIndex.rebuildIndex: clear, then indexNote for every markdown file; a
\* file whose indexNote throws is logged and left out.
RebuildIndex(vlt, failed, now) ==
    [d \in Docs |->
        IF vlt[d].live /\ d \notin failed
           THEN [has |-> TRUE, modifiedAt |-> vlt[d].mtime, lastIndexed |-> now]
           ELSE NoDates]

\* settings-tab.ts:245-322, "Delete all indices": the embedding store is
\* cleared; on "Rebuild Now" the date index is rebuilt and
\* startEmbeddingProcess called.
DeleteAllIndices ==
    /\ layoutReady
    /\ Input
    /\ store' = [d \in Docs |-> NoRecord]
    /\ \E rebuildNow \in BOOLEAN :
          IF rebuildNow
             THEN /\ \E failed \in SUBSET GetMarkdownFiles(vault) :
                     \E now \in Clock(vault) :
                        dateStore' = RebuildIndex(vault, failed, now)
                  /\ StartEffects
             ELSE UNCHANGED <<dateStore, isIndexing, stopIndexing, passes>>
    /\ UNCHANGED <<pauseIndexing, timerVars, vault, settingVars, layoutReady,
                   burst, queued, otherVars>>

\* ------------------------------------------------------------------ Next
Next ==
    \/ StartEmbeddingProcess
    \/ StopEmbedding
    \/ DeleteAllIndices
    \/ \E d \in Docs : FileModify(d)
    \/ \E d \in Docs : FileCreate(d)
    \/ \E d \in Docs : FileDelete(d)
    \/ \E t \in TimerIds : TimerFire(t)
    \/ \E p \in Slots : BulkPrepare(p)
    \/ \E p \in Slots : BulkLoopHead(p)
    \/ \E p \in Slots : Prepare(p)
    \/ \E p \in Slots : FilesLoopHead(p)
    \/ \E p \in Slots : EmbedDone(p)
    \/ \E p \in Slots : SaveDone(p)
    \/ \E p \in Slots : DateStep(p)

Spec == Init /\ [][Next]_vars

\* From construction on: the pass of initializeEmbeddings runs beside the rest.
NextLoad ==
    \/ InitializeEmbeddings
    \/ Next

SpecLoad == InitLoad /\ [][NextLoad]_vars

\* The same with the Pause of the progress modal (main.ts:41-45), which no
\* code of the plugin opens.
NextPause ==
    \/ Next
    \/ PauseEmbedding
    \/ \E p \in Slots : BulkPollPause(p)

SpecPause == Init /\ [][NextPause]_vars

\* ------------------------------------------------- the staleness test alone
Stamps == {500 * i : i \in 0..MaxHalfSeconds}

InitStale ==
    /\ isIndexing = FALSE
    /\ pauseIndexing = FALSE
    /\ stopIndexing = FALSE
    /\ pendingFileChanges = {}
    /\ fileChangeTimeout = 0
    /\ armed = {}
    /\ vault = [d \in Docs |-> [live |-> TRUE, mtime |-> FirstTime]]
    /\ store = [d \in Docs |-> NoRecord]
    /\ dateStore = [d \in Docs |-> NoDates]
    /\ apiKey = TRUE
    /\ excludedFolders = {}
    /\ passes = [p \in Slots |-> FreePass]
    /\ layoutReady = TRUE
    /\ inputs = 0
    /\ burst = NoBurst
    /\ queued = {}
    /\ staleIn \in [mtime : Stamps,
                    existing : {NoRecord} \cup
                        {[has |-> TRUE, content |-> t, lastModified |-> t] :
                             t \in Stamps}]
    /\ staleOut = "none"
    /\ NoCall
    /\ NoChat

\* The filter of getFilesToProcess (main.ts:658-681) decides one file.
CheckStale ==
    /\ staleOut = "none"
    /\ staleOut' = IF NeedsProcessing(staleIn.mtime, staleIn.existing)
                      THEN "stale" ELSE "fresh"
    /\ UNCHANGED <<flagVars, timerVars, vault, store, dateStore, settingVars,
                   passes, layoutReady, inputs, burst, queued, staleIn,
                   callVars, chatVars>>

NextStale == CheckStale

SpecStale == InitStale /\ [][NextStale]_vars

\* ------------------------------------------------------------ DateIndex
\* A timestamp (Date.getTime()) is kept as whole days since 1970-01-01 and
\* the milliseconds of the day; the local time zone is taken to be UTC.
MsOfDay(h, m, sec, ms) == ((h * 60 + m) * 60 + sec) * 1000 + ms
Instant(day, ms) == [day |-> day, ms |-> ms]
Epoch == Instant(0, 0)

\* a <= b on timestamps
AtMost(a, b) ==
    \/ a.day < b.day
    \/ a.day = b.day /\ a.ms <= b.ms

\* x?.getTime() || fallback: undefined and the timestamp 0 are falsy.
GetTimeOr(date, fallback) ==
    IF date = <<>> \/ date[1] = Epoch THEN fallback ELSE date[1]

\* isInDateRange (DateIndex.ts:130-149)
IsInDateRange(metadata, startTime, endTime) ==
    \/ AtMost(startTime, metadata.createdAt)
          /\ AtMost(metadata.createdAt, endTime)
    \/ AtMost(startTime, metadata.modifiedAt)
          /\ AtMost(metadata.modifiedAt, endTime)
    \/ \E i \in 1..Len(metadata.contentDates) :
          /\ AtMost(startTime, metadata.contentDates[i])
          /\ AtMost(metadata.contentDates[i], endTime)

\* The calendar of the JavaScript Date: months are 0..11.
IsLeap(y) == (y % 4 = 0 /\ y % 100 # 0) \/ y % 400 = 0
MonthDays(y, m) ==
    IF m = 1 THEN (IF IsLeap(y) THEN 29 ELSE 28)
    ELSE IF m \in {3, 5, 8, 10} THEN 30 ELSE 31
DaysBeforeYear(y) ==
    365 * (y - 1970) + Cardinality({x \in 1970..(y - 1) : IsLeap(x)})
RECURSIVE DaysBeforeMonth(_, _)
DaysBeforeMonth(y, m) ==
    IF m = 0 THEN 0 ELSE DaysBeforeMonth(y, m - 1) + MonthDays(y, m - 1)
\* The day number of day d of month m of year y; d may lie outside the month.
DayNumber(y, m, d) == DaysBeforeYear(y) + DaysBeforeMonth(y, m) + d - 1

\* The years the calendar is worked out for.
Years == FirstYear..(FirstYear + MaxYears - 1)
\* The year, month and day of the month of a day number.
Civil(n) ==
    LET ym == CHOOSE c \in Years \X (0..11) :
                  /\ DayNumber(c[1], c[2], 1) <= n
                  /\ n < DayNumber(c[1], c[2], 1) + MonthDays(c[1], c[2])
    IN  [y |-> ym[1], m |-> ym[2], d |-> n - DayNumber(ym[1], ym[2], 1) + 1]

GetDate(t) == Civil(t.day).d
GetMonth(t) == Civil(t.day).m
\* 1970-01-01 was a Thursday; 0 is Sunday.
GetDay(t) == (t.day + 4) % 7
\* Date.setDate(n): day n of the date's month, overflowing into its neighbours.
SetDate(t, n) ==
    [t EXCEPT !.day = DayNumber(Civil(t.day).y, Civil(t.day).m, 1) + n - 1]
\* Date.setMonth with the days of the month counted from 0.
SetMonthFromZero(t, month, d) ==
    [t EXCEPT !.day = DayNumber(Civil(t.day).y + month \div 12, month % 12, 1)
                          + d]
\* Date.setMonth(month, day) for month >= 0
SetMonth(t, month, d) ==
    [t EXCEPT !.day = DayNumber(Civil(t.day).y + month \div 12, month % 12, 1)
                          + d - 1]
SetHours(t, h, m, sec, ms) == [t EXCEPT !.ms = MsOfDay(h, m, sec, ms)]

\* getRelativeDateRange (DateIndex.ts:154-185); now is new Date().
GetRelativeDateRange(relative, now) ==
    IF relative = "today"
       THEN [start |-> SetHours(now, 0, 0, 0, 0),
             end |-> SetHours(now, 23, 59, 59, 999)]
    ELSE IF relative = "this_week"
       THEN LET start == SetDate(now, GetDate(now) - GetDay(now))
                end == SetDate(now, GetDate(start) + 6)
            IN  [start |-> SetHours(start, 0, 0, 0, 0),
                 end |-> SetHours(end, 23, 59, 59, 999)]
    ELSE IF relative = "this_month"
       THEN LET start == SetDate(now, 1)
                end == SetMonth(now, GetMonth(start) + 1, 0)
            IN  [start |-> SetHours(start, 0, 0, 0, 0),
                 end |-> SetHours(end, 23, 59, 59, 999)]
    ELSE IF relative = "this_year"
       THEN [start |-> SetHours(SetMonth(now, 0, 1), 0, 0, 0, 0),
             end |-> SetHours(SetMonth(now, 11, 31), 23, 59, 59, 999)]
    ELSE [start |-> now, end |-> now]

\* filterByDate (DateIndex.ts:101-125). filter.start and filter.end are <<>>
\* (undefined) or <<a timestamp>>, filter.relative "" (undefined) or a keyword;
\* meta is what getMetadata returns for each path.
FilterByDate(files, filter, meta, now) ==
    LET startTime == IF filter.relative # ""
                        THEN GetRelativeDateRange(filter.relative, now).start
                        ELSE GetTimeOr(filter.start, Epoch)
        endTime == IF filter.relative # ""
                      THEN GetRelativeDateRange(filter.relative, now).end
                      ELSE GetTimeOr(filter.end, now)
    IN  SelectSeq(files, LAMBDA f :
            /\ meta[f].has
            /\ IsInDateRange(meta[f], startTime, endTime))

\* ------------------------------------------- filterByDate with start and end
\* The timestamps tried: the days -1 .. MaxFilterDays - 2 around 1970-01-01,
\* at midnight.
FilterStamps == {Instant(d - 1, 0) : d \in 0..(MaxFilterDays - 1)}
NoMetadata ==
    [has |-> FALSE, createdAt |-> Epoch, modifiedAt |-> Epoch,
     contentDates |-> <<>>]
FilterMetadata ==
    {NoMetadata} \cup
    {[has |-> TRUE, createdAt |-> c, modifiedAt |-> m, contentDates |-> cd] :
        c \in FilterStamps, m \in FilterStamps,
        cd \in {<<>>} \cup {<<t>> : t \in FilterStamps}}

\* Everything of the maintainer and the chat view at rest.
Quiet ==
    /\ isIndexing = FALSE
    /\ pauseIndexing = FALSE
    /\ stopIndexing = FALSE
    /\ pendingFileChanges = {}
    /\ fileChangeTimeout = 0
    /\ armed = {}
    /\ vault = [d \in Docs |-> [live |-> TRUE, mtime |-> FirstTime]]
    /\ store = [d \in Docs |-> NoRecord]
    /\ dateStore = [d \in Docs |-> NoDates]
    /\ apiKey = TRUE
    /\ excludedFolders = {}
    /\ passes = [p \in Slots |-> FreePass]
    /\ layoutReady = TRUE
    /\ inputs = 0
    /\ burst = NoBurst
    /\ queued = {}
    /\ staleIn = [mtime |-> 0, existing |-> NoRecord]
    /\ staleOut = "none"

quietVars == <<flagVars, timerVars, vault, store, dateStore, settingVars,
               passes, layoutReady, inputs, burst, queued, staleVars>>

InitFilter ==
    /\ Quiet
    /\ NoChat
    /\ result = <<>>
    /\ \E meta \in [Docs -> FilterMetadata] :
       \E start \in FilterStamps, end \in FilterStamps :
          args = [files |-> DocOrder,
                  filter |-> [start |-> <<start>>, end |-> <<end>>,
                              relative |-> ""],
                  meta |-> meta,
                  now |-> Instant(MaxFilterDays, 0)]

\* dateIndex.filterByDate(files, filter) returns.
CallFilterByDate ==
    /\ result = <<>>
    /\ result' = <<FilterByDate(args.files, args.filter, args.meta, args.now)>>
    /\ UNCHANGED <<quietVars, args, chatVars>>

NextFilter == CallFilterByDate

SpecFilter == InitFilter /\ [][NextFilter]_vars

\* ----------------------------------------- filterByDate with a relative range
\* The current time is tried over MaxNowDays days from 20 December of
\* FirstYear on, at the start, the middle and the end of the day.
NowDays ==
    {DayNumber(FirstYear, 11, 20) + i : i \in 0..(MaxNowDays - 1)}
Nows ==
    {Instant(d, ms) : d \in NowDays,
        ms \in {MsOfDay(0, 0, 0, 0), MsOfDay(12, 0, 0, 0),
                MsOfDay(23, 59, 59, 999)}}
Relatives == {"today", "this_week", "this_month", "this_year"}
\* A record of a note created and last modified at noon of a day, without
\* dates in its text.
DatedOn(y, m, d) ==
    [has |-> TRUE,
     createdAt |-> Instant(DayNumber(y, m, d), MsOfDay(12, 0, 0, 0)),
     modifiedAt |-> Instant(DayNumber(y, m, d), MsOfDay(12, 0, 0, 0)),
     contentDates |-> <<>>]

InitRange ==
    /\ Quiet
    /\ NoChat
    /\ result = <<>>
    /\ \E now \in Nows, relative \in Relatives :
          args = [files |-> DocOrder,
                  filter |-> [start |-> <<>>, end |-> <<>>,
                              relative |-> relative],
                  meta |-> [d \in Docs |-> IF d = DocN
                                              THEN DatedOn(2024, 0, 5)
                                              ELSE DatedOn(2023, 11, 1)],
                  now |-> now]

\* dateIndex.filterByDate(files, {relative}) returns; the range it worked
\* with is kept beside the files it returned.
CallFilterRelative ==
    /\ result = <<>>
    /\ result' = <<[range |-> GetRelativeDateRange(args.filter.relative,
                                                   args.now),
                    files |-> FilterByDate(args.files, args.filter, args.meta,
                                           args.now)]>>
    /\ UNCHANGED <<quietVars, args, chatVars>>

NextRange == CallFilterRelative

SpecRange == InitRange /\ [][NextRange]_vars

\* -------------------------------------------------------- SearchService
\* A cosine similarity is kept in hundredths.
SimilarityThreshold == 75
TopK == 5
\* The score of a result found by date, and the boost (in tenths) of a
\* result found both ways.
DateScore == 100
DateBoost == 12
Scores == {70, 75, 80}
\* What the vault has at a record's path: a readable file, a file whose
\* read fails, or nothing.
FileStates == {"file", "unreadable", "missing"}
EmbeddingRecords ==
    [id : 1..MaxRecords, score : Scores, file : FileStates]

\* Array.prototype.sort((a, b) => b.score - a.score): stable, by falling score.
RECURSIVE InsertByScore(_, _)
InsertByScore(sorted, r) ==
    IF sorted = <<>> THEN <<r>>
    ELSE IF Head(sorted).score >= r.score
            THEN <<Head(sorted)>> \o InsertByScore(Tail(sorted), r)
            ELSE <<r>> \o sorted
RECURSIVE SortByScore(_)
SortByScore(rs) ==
    IF rs = <<>> THEN <<>>
    ELSE InsertByScore(SortByScore(SubSeq(rs, 1, Len(rs) - 1)), rs[Len(rs)])

Slice(rs, n) == SubSeq(rs, 1, IF Len(rs) < n THEN Len(rs) ELSE n)

\* performSemanticSearch with a threshold the score has to exceed.
PerformSemanticSearchAbove(embeddings) ==
    Slice(SortByScore(SelectSeq(embeddings, LAMBDA doc :
              doc.score > SimilarityThreshold /\ doc.file = "file")),
          TopK)
\* performSemanticSearch (part_002:32-59); embeddings is what getAllEmbeddings
\* returns, every record with its similarity to the query.
PerformSemanticSearch(embeddings) ==
    Slice(SortByScore(SelectSeq(embeddings, LAMBDA doc :
              doc.score >= SimilarityThreshold /\ doc.file = "file")),
          TopK)
\* search (part_002:102-127): the keyword scores and linked contexts it adds
\* to each result leave the list and its scores as they are.
Search(embeddings) == SortByScore(PerformSemanticSearch(embeddings))

InitSearch ==
    /\ Quiet
    /\ NoChat
    /\ result = <<>>
    /\ \E embeddings \in [1..MaxRecords -> Scores \X FileStates] :
          args = [i \in 1..MaxRecords |->
                     [id |-> i, score |-> embeddings[i][1],
                      file |-> embeddings[i][2]]]

\* searchService.search(query) returns.
CallSearch ==
    /\ result = <<>>
    /\ result' = <<Search(args)>>
    /\ UNCHANGED <<quietVars, args, chatVars>>

NextSearch == CallSearch

SpecSearch == InitSearch /\ [][NextSearch]_vars

\* ------------------------------------------------------- link expansion
\* Notes are numbered in the order getMarkdownFiles lists them; a link
\* target of 0 is a path at which the vault has no file. Every note is taken
\* to be readable and, in semanticSearch, relevant enough to be kept.
Notes == 1..MaxNotes
LinkLists ==
    UNION {[1..n -> 0..MaxNotes] : n \in 0..MaxLinks}
Range(seq) == {seq[i] : i \in 1..Len(seq)}

\* The forward-link loop of traverseLinks (part_002:141-148).
RECURSIVE ForwardLinks(_, _)
ForwardLinks(links, acc) ==
    IF links = <<>> THEN acc
    ELSE IF Head(links) \in Notes /\ Head(links) \notin acc.processedFiles
            THEN ForwardLinks(Tail(links),
                    [processedFiles |-> acc.processedFiles \cup {Head(links)},
                     linkedContexts |-> Append(acc.linkedContexts,
                                               Head(links))])
            ELSE ForwardLinks(Tail(links), acc)

\* The backlink loop of traverseLinks (part_002:151-165) from note n on.
RECURSIVE Backlinks(_, _, _, _)
Backlinks(n, id, cache, acc) ==
    IF n > MaxNotes THEN acc
    ELSE IF id \in Range(cache[n]) /\ n \notin acc.processedFiles
            THEN Backlinks(n + 1, id, cache,
                    [processedFiles |-> acc.processedFiles \cup {n},
                     linkedContexts |-> Append(acc.linkedContexts, n)])
            ELSE Backlinks(n + 1, id, cache, acc)

\* traverseLinks (part_002:129-168): the note paths of the linked contexts
\* of the result for note id; cache[n] is the links of note n.
TraverseLinks(id, cache) ==
    Backlinks(1, id, cache,
              ForwardLinks(cache[id],
                           [processedFiles |-> {}, linkedContexts |-> <<>>])
             ).linkedContexts

\* getLinkedNotes (part_003:283-297): a file for every [[link]] of the text.
GetLinkedNotes(links) == SelectSeq(links, LAMBDA t : t \in Notes)

\* The linked contexts semanticSearch gives a result (part_003:369-394): one
\* for each linked file, the three most relevant kept.
LinkedContextsKept == 3
LegacyLinkedContexts(id, cache) ==
    Slice(GetLinkedNotes(cache[id]), LinkedContextsKept)

InitLinks ==
    /\ Quiet
    /\ NoChat
    /\ result = <<>>
    /\ \E id \in Notes, cache \in [Notes -> LinkLists] :
          args = [id |-> id, cache |-> cache]

\* The linked contexts of one search result are worked out, by
\* SearchService.search and by semanticSearch.
CallTraverseLinks ==
    /\ result = <<>>
    /\ result' = <<[traverseLinks |-> TraverseLinks(args.id, args.cache),
                    semanticSearch |-> LegacyLinkedContexts(args.id,
                                                            args.cache)]>>
    /\ UNCHANGED <<quietVars, args, chatVars>>

NextLinks == CallTraverseLinks

SpecLinks == InitLinks /\ [][NextLinks]_vars

\* ------------------------------------------------ DateAwareSearchService
\* What the date-intent classifier does with a query: the call is rejected,
\* its answer is not JSON, says hasDateAspect false, or describes a relative,
\* an absolute or a comparison query, or claims a date aspect without a filter.
Classifications ==
    {"rejected", "unparsable", "noDateAspect", "relative", "absolute",
     "comparison", "noFilter"}

\* analyzeDateQuery (DateAwareSearchService.ts:67-140) with a catch that
\* rethrows.
AnalyzeDateQueryRethrow(classification) ==
    IF classification \in {"rejected", "unparsable"}
       THEN [threw |-> TRUE, dateQuery |-> <<>>]
    ELSE IF classification = "noDateAspect"
       THEN [threw |-> FALSE, dateQuery |-> <<>>]
    ELSE [threw |-> FALSE,
          dateQuery |-> <<[type |-> IF classification = "noFilter"
                                       THEN "relative" ELSE classification,
                           filter |-> classification
                                         \in {"relative", "absolute"},
                           comparisonPeriods |->
                               classification = "comparison"]>>]
\* analyzeDateQuery (DateAwareSearchService.ts:67-140): dateQuery is <<>> for
\* null; filter and comparisonPeriods tell whether the field is there.
AnalyzeDateQuery(classification) ==
    IF classification \in {"rejected", "unparsable"}
       THEN [threw |-> FALSE, dateQuery |-> <<>>]
    ELSE IF classification = "noDateAspect"
       THEN [threw |-> FALSE, dateQuery |-> <<>>]
    ELSE [threw |-> FALSE,
          dateQuery |-> <<[type |-> IF classification = "noFilter"
                                       THEN "relative" ELSE classification,
                           filter |-> classification
                                         \in {"relative", "absolute"},
                           comparisonPeriods |->
                               classification = "comparison"]>>]

\* The notes of a set in the order getMarkdownFiles lists them.
FilesIn(S) == SelectSeq([n \in Notes |-> n], LAMBDA n : n \in S)

\* addDateAwareResults (DateAwareSearchService.ts:176-193)
DateAwareResults(files) ==
    [i \in 1..Len(files) |->
        [id |-> files[i], score |-> DateScore, dated |-> TRUE]]

\* getDateFilteredResults (DateAwareSearchService.ts:145-171); period1,
\* period2 are the sets filterByDate lets through for the one range or the two.
GetDateFilteredResults(dateQuery, period1, period2) ==
    IF dateQuery.type = "comparison"
       THEN IF dateQuery.comparisonPeriods
               THEN [threw |-> FALSE,
                     results |-> DateAwareResults(FilesIn(period1))
                                    \o DateAwareResults(FilesIn(period2))]
               ELSE [threw |-> TRUE, results |-> <<>>]
    ELSE IF dateQuery.filter
       THEN [threw |-> FALSE, results |-> DateAwareResults(FilesIn(period1))]
       ELSE [threw |-> TRUE, results |-> <<>>]

Max(a, b) == IF a >= b THEN a ELSE b
\* The merge loop of mergeAndRankResults (DateAwareSearchService.ts:213-225)
RECURSIVE MergeDateResults(_, _)
MergeDateResults(merged, dateResults) ==
    IF dateResults = <<>> THEN merged
    ELSE IF \E i \in 1..Len(merged) : merged[i].id = Head(dateResults).id
       THEN MergeDateResults(
               [i \in 1..Len(merged) |->
                   IF merged[i].id = Head(dateResults).id
                      THEN [merged[i] EXCEPT
                              !.score = (Max(merged[i].score,
                                             Head(dateResults).score)
                                            * DateBoost) \div 10,
                              !.dated = TRUE]
                      ELSE merged[i]],
               Tail(dateResults))
       ELSE MergeDateResults(Append(merged, Head(dateResults)),
                             Tail(dateResults))
\* mergeAndRankResults (DateAwareSearchService.ts:198-230)
MergeAndRankResults(semanticResults, dateResults) ==
    SortByScore(MergeDateResults(semanticResults, dateResults))

\* DateAwareSearchService.search (DateAwareSearchService.ts:45-62); semantic
\* is how searchService.search ended.
DateAwareSearch(classification, semantic, period1, period2) ==
    LET analysis == AnalyzeDateQuery(classification)
    IN  IF analysis.threw \/ semantic.threw
           THEN [threw |-> TRUE, results |-> <<>>]
        ELSE IF analysis.dateQuery = <<>>
           THEN [threw |-> FALSE, results |-> semantic.results]
        ELSE LET dateResults ==
                     GetDateFilteredResults(analysis.dateQuery[1],
                                            period1, period2)
             IN  IF dateResults.threw
                    THEN [threw |-> TRUE, results |-> <<>>]
                    ELSE [threw |-> FALSE,
                          results |-> MergeAndRankResults(semantic.results,
                                          dateResults.results)]

\* The lists searchService.search can return: up to MaxResults results for
\* different notes, by falling score.
SemanticLists ==
    {rs \in UNION {[1..n -> [id : Notes, score : Scores, dated : {FALSE}]]
                       : n \in 0..MaxResults} :
        /\ \A i \in 1..Len(rs) : \A j \in 1..Len(rs) :
              rs[i].id = rs[j].id => i = j
        /\ \A i \in 1..(Len(rs) - 1) : rs[i].score >= rs[i + 1].score
        /\ \A i \in 1..Len(rs) : rs[i].score >= SimilarityThreshold}

InitDateSearch ==
    /\ Quiet
    /\ NoChat
    /\ result = <<>>
    /\ \E classification \in Classifications,
          period1 \in SUBSET Notes, period2 \in SUBSET Notes,
          semantic \in {[threw |-> TRUE, results |-> <<>>]}
                          \cup {[threw |-> FALSE, results |-> rs] :
                                   rs \in SemanticLists} :
          args = [classification |-> classification, semantic |-> semantic,
                  period1 |-> period1, period2 |-> period2]

\* dateAwareSearchService.search(query) returns or throws.
CallDateAwareSearch ==
    /\ result = <<>>
    /\ result' = <<DateAwareSearch(args.classification, args.semantic,
                                   args.period1, args.period2)>>
    /\ UNCHANGED <<quietVars, args, chatVars>>

NextDateSearch == CallDateAwareSearch

SpecDateSearch == InitDateSearch /\ [][NextDateSearch]_vars

\* ------------------------------------------------------- ChatSidebarView
\* A turn is one call of handleUserMessage: where it stands, and the signal
\* its pending LLM call was given (a controller, or 0 for undefined).
TurnIds == 1..Len(turns)
NewTurn == [pc |-> "started", signal |-> 0]
\* controller.abort() on currentRequest, if there is one (628-629, 738-739).
AbortCurrent ==
    IF currentRequest # 0
       THEN [controllers EXCEPT ![currentRequest] = TRUE]
       ELSE controllers

InitChat ==
    /\ Quiet
    /\ NoCall
    /\ NoChat

\* The send button is clicked with a message (ChatSidebarView.ts:227-232,
\* 331-378): a new controller replaces currentRequest.
HandleUserMessage ==
    /\ viewOpen
    /\ apiKey
    /\ Len(turns) < MaxTurns
    /\ controllers' = Append(controllers, FALSE)
    /\ currentRequest' = Len(controllers) + 1
    /\ turns' = Append(turns, NewTurn)
    /\ UNCHANGED <<quietVars, callVars, viewOpen>>

\* analyzeConversationContinuity sends its request (ChatSidebarView.ts:288-309)
\* with the signal of whatever currentRequest is then.
AnalyzeCall(t) ==
    /\ turns[t].pc = "started"
    /\ turns' = [turns EXCEPT ![t] = [pc |-> "analyzing",
                                      signal |-> currentRequest]]
    /\ UNCHANGED <<quietVars, callVars, currentRequest, controllers, viewOpen>>

\* analyzeConversationContinuity returns without a request: there is no
\* earlier exchange (ChatSidebarView.ts:273-279).
AnalyzeSkip(t) ==
    /\ turns[t].pc = "started"
    /\ turns' = [turns EXCEPT ![t] = [pc |-> "searching", signal |-> 0]]
    /\ UNCHANGED <<quietVars, callVars, currentRequest, controllers, viewOpen>>

\* The analysis request ends, answered, failed or aborted: all three are
\* caught and the turn goes on (ChatSidebarView.ts:311-328).
AnalyzeReturn(t) ==
    /\ turns[t].pc = "analyzing"
    /\ turns' = [turns EXCEPT ![t] = [pc |-> "searching", signal |-> 0]]
    /\ UNCHANGED <<quietVars, callVars, currentRequest, controllers, viewOpen>>

\* The chat request is sent (ChatSidebarView.ts:490-495).
RespondCall(t) ==
    /\ turns[t].pc = "searching"
    /\ turns' = [turns EXCEPT ![t] = [pc |-> "responding",
                                      signal |-> currentRequest]]
    /\ UNCHANGED <<quietVars, callVars, currentRequest, controllers, viewOpen>>

\* The search before the chat request throws, or the chat request ends,
\* answered, failed or aborted: finally clears currentRequest
\* (ChatSidebarView.ts:575-594).
TurnReturn(t) ==
    /\ turns[t].pc \in {"searching", "responding"}
    /\ turns' = [turns EXCEPT ![t] = [pc |-> "returned", signal |-> 0]]
    /\ currentRequest' = 0
    /\ UNCHANGED <<quietVars, callVars, controllers, viewOpen>>

\* resetChat (ChatSidebarView.ts:625-631)
ResetChat ==
    /\ viewOpen
    /\ currentRequest # 0
    /\ controllers' = AbortCurrent
    /\ currentRequest' = 0
    /\ UNCHANGED <<quietVars, callVars, turns, viewOpen>>

\* onClose (ChatSidebarView.ts:736-743)
OnClose ==
    /\ viewOpen
    /\ viewOpen' = FALSE
    /\ controllers' = AbortCurrent
    /\ currentRequest' = 0
    /\ UNCHANGED <<quietVars, callVars, turns>>

NextChat ==
    \/ HandleUserMessage
    \/ \E t \in TurnIds : AnalyzeCall(t)
    \/ \E t \in TurnIds : AnalyzeSkip(t)
    \/ \E t \in TurnIds : AnalyzeReturn(t)
    \/ \E t \in TurnIds : RespondCall(t)
    \/ \E t \in TurnIds : TurnReturn(t)
    \/ ResetChat
    \/ OnClose

SpecChat == InitChat /\ [][NextChat]_vars

\* ------------------------------------------------------ linked contexts
\* The decay of a linked note's relevance against its result, in tenths.
LinkDecay == 8
\* processLinkedFile (part_002:170-183), the read taken to succeed.
ProcessLinkedFile(file, parentScore) ==
    [notePath |-> file, relevance |-> (parentScore * LinkDecay) \div 10,
     linkDistance |-> 1]

\* The LinkedContexts traverseLinks returns for a result (part_002:129-168).
TraverseLinkContexts(id, score, cache) ==
    [i \in 1..Len(TraverseLinks(id, cache)) |->
        ProcessLinkedFile(TraverseLinks(id, cache)[i], score)]

\* semanticSearch keeps the records scoring at least this (part_003:341), and
\* of the linked notes those whose best chunk scores at least that.
LegacyThreshold == 80
LegacyLinkThreshold == 75
\* The similarities a linked note's best chunk can have to the query.
ChunkScores == {70, 80, 90}

\* Array.prototype.sort((a, b) => b.relevance - a.relevance)
RECURSIVE InsertByRelevance(_, _)
InsertByRelevance(sorted, c) ==
    IF sorted = <<>> THEN <<c>>
    ELSE IF Head(sorted).relevance >= c.relevance
            THEN <<Head(sorted)>> \o InsertByRelevance(Tail(sorted), c)
            ELSE <<c>> \o sorted
RECURSIVE SortByRelevance(_)
SortByRelevance(cs) ==
    IF cs = <<>> THEN <<>>
    ELSE InsertByRelevance(SortByRelevance(SubSeq(cs, 1, Len(cs) - 1)),
                           cs[Len(cs)])

\* The loop over the linked files in semanticSearch (part_003:373-384) with
\* getRelevantLinkedContext (part_003:299-330): a linkDistance of 0 stands
\* for the field this LinkedContext does not have.
RECURSIVE RelevantLinkedContexts(_, _)
RelevantLinkedContexts(linkedFiles, bestScore) ==
    IF linkedFiles = <<>> THEN <<>>
    ELSE IF bestScore[Head(linkedFiles)] >= LegacyLinkThreshold
            THEN <<[notePath |-> Head(linkedFiles),
                    relevance |-> bestScore[Head(linkedFiles)],
                    linkDistance |-> 0]>>
                 \o RelevantLinkedContexts(Tail(linkedFiles), bestScore)
            ELSE RelevantLinkedContexts(Tail(linkedFiles), bestScore)

\* The linkedContexts of a result of semanticSearch (part_003:368-394); a
\* record below the threshold is no result and has none.
SemanticSearchContexts(id, score, cache, bestScore) ==
    IF score >= LegacyThreshold
       THEN Slice(SortByRelevance(
                     RelevantLinkedContexts(GetLinkedNotes(cache[id]),
                                            bestScore)),
                  LinkedContextsKept)
       ELSE <<>>

\* The result's note has any links; every other note links to it or has no
\* link.
InitContexts ==
    /\ Quiet
    /\ NoChat
    /\ result = <<>>
    /\ \E id \in Notes, links \in LinkLists, sources \in SUBSET Notes,
          score \in {sc \in Scores : sc >= SimilarityThreshold},
          bestScore \in [Notes -> ChunkScores] :
          args = [id |-> id, score |-> score, bestScore |-> bestScore,
                  cache |-> [n \in Notes |->
                                IF n = id THEN links
                                ELSE IF n \in sources THEN <<id>> ELSE <<>>]]

\* A result for note id with the given score gets its linked contexts, from
\* SearchService.search and from semanticSearch.
CallLinkedContexts ==
    /\ result = <<>>
    /\ result' = <<[traverseLinks |->
                        TraverseLinkContexts(args.id, args.score, args.cache),
                    semanticSearch |->
                        SemanticSearchContexts(args.id, args.score, args.cache,
                                               args.bestScore)]>>
    /\ UNCHANGED <<quietVars, args, chatVars>>

NextContexts == CallLinkedContexts

SpecContexts == InitContexts /\ [][NextContexts]_vars

\* ------------------------------------------------- DateIndex.rebuildIndex
\* The rebuild taken step by step, beside the user's changes to the vault.
\* args holds its position: pc, the files still to index, the file list it
\* took, the files whose indexNote returned (indexed) or threw (failed), and
\* the mtime indexNote read for the file in hand.
\* What is left to index after a file, if a failed indexNote ended the loop.
AfterNoteAbort(files, ok) == IF ok THEN Tail(files) ELSE <<>>
\* What is left to index after a file, indexed or not (DateIndex.ts:203-213).
AfterNote(files, ok) == Tail(files)

InitRebuild ==
    /\ isIndexing = FALSE
    /\ pauseIndexing = FALSE
    /\ stopIndexing = FALSE
    /\ pendingFileChanges = {}
    /\ fileChangeTimeout = 0
    /\ armed = {}
    /\ vault \in [Docs -> [live : BOOLEAN, mtime : {FirstTime}]]
    /\ store = [d \in Docs |-> NoRecord]
    /\ dateStore \in [Docs -> {NoDates, FirstDates}]
    /\ apiKey = TRUE
    /\ excludedFolders = {}
    /\ passes = [p \in Slots |-> FreePass]
    /\ layoutReady = TRUE
    /\ inputs = 0
    /\ burst = NoBurst
    /\ queued = {}
    /\ staleIn = [mtime |-> 0, existing |-> NoRecord]
    /\ staleOut = "none"
    /\ NoChat
    /\ result = <<>>
    /\ args = [pc |-> "start", files |-> <<>>, listed |-> {}, indexed |-> {},
               failed |-> {}, mtime |-> 0]

rebuildFixed == <<flagVars, timerVars, vault, store, settingVars, passes,
                  layoutReady, inputs, burst, queued, staleVars, chatVars>>

\* DateIndex.ts:194-198: dateStore.clear(), then the list of markdown files;
\* a clear that rejects is thrown on.
RebuildClear ==
    /\ args.pc = "start"
    /\ \E ok \in BOOLEAN :
          IF ok
             THEN /\ dateStore' = [d \in Docs |-> NoDates]
                  /\ args' = [args EXCEPT
                         !.pc = "loop",
                         !.files = SelectSeq(DocOrder, LAMBDA d :
                                       d \in GetMarkdownFiles(vault)),
                         !.listed = GetMarkdownFiles(vault)]
             ELSE /\ args' = [args EXCEPT !.pc = "threw"]
                  /\ UNCHANGED dateStore
    /\ UNCHANGED <<rebuildFixed, result>>

\* indexNote reads the next file (DateIndex.ts:36-37); a failed read is
\* caught by the loop (DateIndex.ts:210-212).
RebuildRead ==
    /\ args.pc = "loop"
    /\ args.files # <<>>
    /\ \E ok \in BOOLEAN :
          /\ ok => vault[Head(args.files)].live
          /\ args' = IF ok
                        THEN [args EXCEPT
                                !.pc = "setItem",
                                !.mtime = vault[Head(args.files)].mtime]
                        ELSE [args EXCEPT
                                !.files = AfterNote(args.files, FALSE),
                                !.failed = args.failed \cup {Head(args.files)}]
    /\ UNCHANGED <<rebuildFixed, dateStore, result>>

\* indexNote stores the record (DateIndex.ts:38-39), or the store rejects.
RebuildSetItem ==
    /\ args.pc = "setItem"
    /\ \E ok \in BOOLEAN :
          IF ok
             THEN /\ \E now \in Clock(vault) :
                        dateStore' = IndexNote(dateStore, Head(args.files),
                                               args.mtime, now)
                  /\ args' = [args EXCEPT
                         !.pc = "loop", !.mtime = 0,
                         !.files = AfterNote(args.files, TRUE),
                         !.indexed = args.indexed \cup {Head(args.files)}]
             ELSE /\ UNCHANGED dateStore
                  /\ args' = [args EXCEPT
                         !.pc = "loop", !.mtime = 0,
                         !.files = AfterNote(args.files, FALSE),
                         !.failed = args.failed \cup {Head(args.files)}]
    /\ UNCHANGED <<rebuildFixed, result>>

\* The loop is over and rebuildIndex returns (DateIndex.ts:215-216).
RebuildReturn ==
    /\ args.pc = "loop"
    /\ args.files = <<>>
    /\ args' = [args EXCEPT !.pc = "done"]
    /\ result' = <<args.indexed>>
    /\ UNCHANGED <<rebuildFixed, dateStore>>

NextRebuild ==
    \/ RebuildClear
    \/ RebuildRead
    \/ RebuildSetItem
    \/ RebuildReturn
    \/ \E d \in Docs : FileModify(d)
    \/ \E d \in Docs : FileCreate(d)
    \/ \E d \in Docs : FileDelete(d)

SpecRebuild == InitRebuild /\ [][NextRebuild]_vars

\* ================================================================= claims
\* A pass has a document in processing: its provider call or its store write
\* is pending.
Processing(p) == passes[p].pc \in {"embedding", "saving"}

\* The pass takes a file in this step.
Begins(p) ==
    /\ passes[p].pc \in {"loop", "paused"}
    /\ passes'[p].pc = "embedding"

\* The pass returns or throws in this step.
Ends(p) ==
    /\ passes[p].kind # "none"
    /\ passes'[p].kind = "none"

\* No pass is in flight and the flag is clear.
Idle ==
    /\ ~isIndexing
    /\ \A p \in Slots : passes[p].kind = "none"

\* C1 (as claimed): never do two passes, bulk or incremental, have a document
\* in processing at once.
C1_OnePassProcessing ==
    Cardinality({p \in Slots : /\ passes[p].kind \in {"bulk", "incr"}
                               /\ Processing(p)}) <= 1

\* C2 (as claimed): when a bulk pass ends, however it ends, isIndexing is
\* false.
C2_FlagClearAtEnd ==
    [][\A p \in Slots :
          (passes[p].kind = "bulk" /\ Ends(p)) => ~isIndexing']_vars

\* C3 (as claimed): a bulk pass during which Stop was issued takes no further
\* file.
C3_NoFileAfterStop ==
    [][\A p \in Slots :
          (passes[p].kind = "bulk" /\ passes[p].stopped) => ~Begins(p)]_vars

\* A document is eligible for embedding now: under no excluded folder, stale
\* by whole seconds, and the API key is set.
Eligible(d) ==
    /\ apiKey
    /\ \A f \in excludedFolders : ~StartsWith(d, f)
    /\ \/ ~store[d].has
       \/ vault[d].mtime \div 1000 > store[d].lastModified \div 1000

\* C4 (as claimed): a live document queued while a bulk pass ran and still to
\* be embedded is on its way to an incremental pass once the maintainer is idle:
\* the timer is set, so that no further file event is needed.
C4_QueuedThenScheduled ==
    (Idle /\ \E d \in queued : vault[d].live /\ Eligible(d)) => armed # {}

\* The timer callback starts a pass in this step.
StartsIncr(p) ==
    /\ passes[p].kind = "none"
    /\ passes'[p].kind = "incr"

C7_NoOrphanAfterBulk ==
    [][\A p \in Slots :
          (passes[p].kind = "bulk" /\ Ends(p))
              => \A d \in Docs : store'[d].has => d \in passes[p].snapshot]_vars

\* C8 (as claimed): no step writes a record of either store for a document
\* under a configured excluded folder.
C8_ExcludedNeverWritten ==
    [][\A d \in Docs :
          IsExcluded(d, excludedFolders)
              => /\ store'[d] = store[d] \/ ~store'[d].has
                 /\ dateStore'[d] = dateStore[d] \/ ~dateStore'[d].has]_vars

\* The attempt of the pass on its file fails in this step: the provider call
\* settles with an error or the store write does.
AttemptFails(p) ==
    /\ Processing(p)
    /\ passes'[p].pc # passes[p].pc
    /\ \/ passes'[p].kind = "none"
       \/ passes'[p].last \in {"unembedded", "unsaved"}

\* C9: a step in which an attempt fails leaves the embedding store as it was,
\* and a step that changes a document's entry either removes it or stores the
\* vector and the lastModified of one attempt together, nothing being kept of
\* the entry before.
C9_AllOrNothing ==
    [][/\ \A p \in Slots : AttemptFails(p) => store' = store
       /\ \A d \in Docs :
             store'[d] # store[d]
                => \/ ~store'[d].has
                   \/ \E p \in Slots :
                         /\ passes[p].pc = "saving"
                         /\ passes[p].cur = d
                         /\ passes'[p].last = "saved"
                         /\ store'[d] = [has |-> TRUE,
                                content |-> passes[p].content,
                                lastModified |-> passes[p].lastModified]
      ]_vars

\* The store write for a modified document has failed and its entry is the
\* one of before the attempt.
C9_Witness ==
    \E p \in Slots :
       /\ passes[p].last = "unsaved"
       /\ passes[p].pc = "loop"
       /\ store[passes[p].cur] = FirstRecord
       /\ vault[passes[p].cur].mtime > FirstTime

\* C10 (as claimed): a pass in which a provider call has failed on the API
\* key takes no further file.
C10_AuthFailureStops ==
    [][\A p \in Slots : passes[p].authFailed => ~Begins(p)]_vars

\* C11 (as claimed): a bulk or incremental pass leaves its loop only when no
\* file remains or Stop was requested: a failed read or a failed provider
\* call that is not about the API key skips the one file and the pass goes on.
C11_TransientOnlySkips ==
    [][\A p \in Slots :
          (passes[p].kind \in {"bulk", "incr"} /\ Ends(p)
              /\ passes[p].pc = "loop")
             => (passes[p].files = {} \/ stopIndexing)]_vars

\* The pass computes its lists of files in this step.
Prepares(p) ==
    /\ passes[p].kind \in {"incr", "load"}
    /\ passes[p].pc = "prepare"
    /\ passes'[p].pc # "prepare"

Within(t, start, end) ==
    /\ start.day < t.day \/ (start.day = t.day /\ start.ms <= t.ms)
    /\ t.day < end.day \/ (t.day = end.day /\ t.ms <= end.ms)

\* The document has a date record with a timestamp in [start, end].
Dated(f, start, end) ==
    /\ args.meta[f].has
    /\ \/ Within(args.meta[f].createdAt, start, end)
       \/ Within(args.meta[f].modifiedAt, start, end)
       \/ \E i \in 1..Len(args.meta[f].contentDates) :
             Within(args.meta[f].contentDates[i], start, end)

\* C13 (as claimed): filterByDate(docs, {start, end}) returns exactly the
\* input documents with a date record of which createdAt, modifiedAt or a
\* contentDates entry lies in [start, end], in input order.
C13_FilterByDateExact ==
    result # <<>>
       => result[1] = SelectSeq(args.files, LAMBDA f :
              Dated(f, args.filter.start[1], args.filter.end[1]))

\* C14 (as claimed): for 'this_week' the range starts on the Sunday of the
\* current week at 00:00:00.000 and ends on the Saturday of the same week at
\* 23:59:59.999, also when the week crosses a month or a year boundary.
C14_ThisWeekSundayToSaturday ==
    (result # <<>> /\ args.filter.relative = "this_week")
       => LET start == result[1].range.start
              end == result[1].range.end
          IN  /\ (start.day + 4) % 7 = 0
              /\ start.day <= args.now.day
              /\ args.now.day <= start.day + 6
              /\ start.ms = 0
              /\ end.day = start.day + 6
              /\ end.ms = MsOfDay(23, 59, 59, 999)

\* Two days lie in the same month of the same year.
SameMonth(a, b) == Civil(a).y = Civil(b).y /\ Civil(a).m = Civil(b).m

\* C15: for 'today' the range is the current day from 00:00:00.000 to
\* 23:59:59.999; for 'this_month' it runs from the first day of the current
\* month at 00:00:00.000 to its last day at 23:59:59.999, so on 2024-01-10 a
\* note dated 2024-01-05 is returned and one dated 2023-12-01 is not.
C15_TodayAndThisMonth ==
    result # <<>>
       => LET start == result[1].range.start
              end == result[1].range.end
          IN  /\ args.filter.relative = "today"
                 => /\ start = Instant(args.now.day, 0)
                    /\ end = Instant(args.now.day, MsOfDay(23, 59, 59, 999))
              /\ args.filter.relative = "this_month"
                 => /\ SameMonth(start.day, args.now.day)
                    /\ ~SameMonth(start.day - 1, args.now.day)
                    /\ start.ms = 0
                    /\ SameMonth(end.day, args.now.day)
                    /\ ~SameMonth(end.day + 1, args.now.day)
                    /\ end.ms = MsOfDay(23, 59, 59, 999)
              /\ (args.filter.relative = "this_month"
                    /\ args.now.day = DayNumber(2024, 0, 10))
                 => result[1].files = <<DocN>>

C15_Witness ==
    /\ result # <<>>
    /\ args.filter.relative = "this_month"
    /\ args.now.day = DayNumber(2024, 0, 10)
    /\ result[1].files = <<DocN>>
    /\ result[1].range.end.day = DayNumber(2024, 0, 31)

\* The records a search may return: at or above 0.75, the file there and
\* readable.
Qualifying ==
    {i \in 1..Len(args) : args[i].score >= 75 /\ args[i].file = "file"}
Returned == {result[1][k].id : k \in 1..Len(result[1])}

\* What is returned is qualifying, without repeats, at most five, all of
\* them when there are no more than five, in non-increasing order of score,
\* and nothing left out scores higher than something returned.
TopFive ==
    /\ Returned \subseteq Qualifying
    /\ \A k \in 1..Len(result[1]) :
          result[1][k] = [id |-> result[1][k].id,
                          score |-> args[result[1][k].id].score,
                          file |-> "file"]
    /\ Cardinality(Returned) = Len(result[1])
    /\ Len(result[1]) = IF Cardinality(Qualifying) < 5
                           THEN Cardinality(Qualifying) ELSE 5
    /\ \A k \in 1..(Len(result[1]) - 1) :
          result[1][k].score >= result[1][k + 1].score
    /\ \A i \in Qualifying \ Returned : \A j \in Returned :
          args[j].score >= args[i].score

\* C16 (as claimed): the search returns the top five of the qualifying
\* records in non-increasing order, never one scoring 0.70, and a qualifying
\* record scoring 0.80 unless five records score higher.
C16_TopKHigher ==
    result # <<>>
       => /\ TopFive
          /\ \A i \in Qualifying \ Returned :
                Cardinality({j \in Qualifying :
                                args[j].score > args[i].score}) >= 5

\* C16 (amended): as above, but a qualifying record is left out only when
\* five other qualifying records score at least as high.
C16_TopKAtLeast ==
    result # <<>>
       => /\ TopFive
          /\ \A i \in Qualifying \ Returned :
                Cardinality({j \in Qualifying \ {i} :
                                args[j].score >= args[i].score}) >= 5

C16_Witness ==
    /\ result # <<>>
    /\ Len(result[1]) = 5
    /\ Cardinality(Qualifying) = 6
    /\ \E k \in 1..5 : result[1][k].score = 75
    /\ \E k \in 1..5 : result[1][k].score = 80

\* No note path occurs twice in a list of linked contexts.
NoRepeat(contexts) ==
    \A i \in 1..Len(contexts) : \A j \in 1..Len(contexts) :
       contexts[i] = contexts[j] => i = j

\* C17 (as claimed): link expansion ends on every link graph, and in one
\* result's linked contexts every note path occurs at most once, also when
\* a note is both a forward link and a backlink or is linked several times.
C17_EachPathOnce ==
    result # <<>>
       => /\ NoRepeat(result[1].traverseLinks)
          /\ NoRepeat(result[1].semanticSearch)

\* C18: when the date-intent classifier reports no date aspect, or its call
\* fails, or its answer is not JSON, DateAwareSearchService.search returns
\* the list the semantic search returned, unchanged, and fails only if the
\* semantic search itself failed.
C18_ClassifierFailsOpen ==
    (result # <<>>
        /\ args.classification \in {"noDateAspect", "rejected", "unparsable"})
       => /\ result[1].threw <=> args.semantic.threw
          /\ ~args.semantic.threw
                => result[1].results = args.semantic.results

C18_Witness ==
    /\ result # <<>>
    /\ args.classification = "unparsable"
    /\ ~result[1].threw
    /\ Len(result[1].results) = 2
    /\ result[1].results = args.semantic.results
    /\ args.period1 # {}
    /\ \E n \in args.period1 : n = result[1].results[2].id

\* The turn has an LLM call pending.
InFlight(t) == turns[t].pc \in {"analyzing", "responding"}

\* C19 (as claimed): when a new message is started or the view is closed,
\* every LLM call then in flight is aborted, and at all times every call in
\* flight has a signal that is aborted or is the one currentRequest would
\* abort.
C19_InFlightAborted ==
    [][/\ (Len(turns') > Len(turns) \/ (viewOpen /\ ~viewOpen'))
          => \A t \in TurnIds :
                InFlight(t) => /\ turns[t].signal # 0
                               /\ controllers'[turns[t].signal]
       /\ \A t \in 1..Len(turns') :
             turns'[t].pc \in {"analyzing", "responding"}
                => /\ turns'[t].signal # 0
                   /\ \/ controllers'[turns'[t].signal]
                      \/ currentRequest' = turns'[t].signal]_vars

\* C20 (as claimed): while the pass started at plugin load has a document in
\* processing, no other pass, bulk or incremental, has one: the events that
\* arrive meanwhile wait in the queue.
C20_LoadPassExcludes ==
    \A p \in Slots :
       (passes[p].kind = "load" /\ Processing(p))
          => \A q \in Slots \ {p} : ~Processing(q)

\* C22 (as claimed): no result of a date-aware search scores above 1.2,
\* whatever the kind of query, also when a note matches both periods of a
\* comparison; a note only the date filter found keeps the score 1.0.
C22_ScoreAtMostBoost ==
    (result # <<>> /\ ~result[1].threw)
       => \A k \in 1..Len(result[1].results) :
             /\ result[1].results[k].score <= 120
             /\ (\A i \in 1..Len(args.semantic.results) :
                    args.semantic.results[i].id # result[1].results[k].id)
                   => result[1].results[k].score = 100

\* C23 (as claimed): every LinkedContext of a result has a relevance of at
\* most the result's score and linkDistance 1, in SearchService.search and in
\* semanticSearch.
C23_RelevanceBelowScore ==
    result # <<>>
       => /\ \A k \in 1..Len(result[1].traverseLinks) :
                /\ result[1].traverseLinks[k].relevance <= args.score
                /\ result[1].traverseLinks[k].linkDistance = 1
          /\ \A k \in 1..Len(result[1].semanticSearch) :
                /\ result[1].semanticSearch[k].relevance <= args.score
                /\ result[1].semanticSearch[k].linkDistance = 1

\* C24 (as claimed): a result carries at most 3 linked contexts, in
\* non-increasing order of relevance, however many links and backlinks its
\* note has.
C24_AtMostThreeContexts ==
    result # <<>>
       => /\ Len(result[1].traverseLinks) <= 3
          /\ Len(result[1].semanticSearch) <= 3
          /\ \A k \in 1..(Len(result[1].traverseLinks) - 1) :
                result[1].traverseLinks[k].relevance
                   >= result[1].traverseLinks[k + 1].relevance
          /\ \A k \in 1..(Len(result[1].semanticSearch) - 1) :
                result[1].semanticSearch[k].relevance
                   >= result[1].semanticSearch[k + 1].relevance

\* C30 (as claimed): no linked context of a result is the result's own note,
\* also when the note links to itself.
C30_NotItsOwnContext ==
    result # <<>>
       => /\ \A k \in 1..Len(result[1].traverseLinks) :
                result[1].traverseLinks[k].notePath # args.id
          /\ \A k \in 1..Len(result[1].semanticSearch) :
                result[1].semanticSearch[k].notePath # args.id

C26_EventDuringPassKept ==
    [][\A p \in Slots :
          (passes[p].kind = "incr" /\ Ends(p))
             => \A d \in pendingFileChanges \ passes[p].snapshot :
                   (vault[d].live /\ Eligible(d))
                      => d \in pendingFileChanges']_vars

\* C27 (as claimed): a record the staleness test reports as fresh was
\* computed from the content the document has now; a document modified
\* between a pass's read and its save is still reported stale.
C27_FreshMeansCurrent ==
    \A d \in Docs :
       (vault[d].live /\ store[d].has
           /\ ~NeedsProcessing(vault[d].mtime, store[d]))
          => store[d].content = vault[d].mtime

\* The bulk pass with Pause under the scheduling of the event loop: a
\* continuation that can run does run, and the timer of the pause wait
\* (main.ts:364) fires; what the user does is left free.
PauseFairness ==
    /\ \A p \in Slots : WF_vars(BulkPrepare(p))
    /\ \A p \in Slots : WF_vars(BulkLoopHead(p))
    /\ \A p \in Slots : WF_vars(BulkPollPause(p))
    /\ \A p \in Slots : WF_vars(EmbedDone(p))
    /\ \A p \in Slots : WF_vars(SaveDone(p))

SpecPauseLive == Init /\ [][NextPause]_vars /\ PauseFairness

\* C28 (as claimed): a bulk pass is never blocked in the pause wait for
\* ever: once the user has pressed Stop, a pass that waits there leaves the
\* wait.
C28_PauseWaitEnds ==
    \A p \in Slots :
       (passes[p].pc = "paused" /\ passes[p].stopped)
          ~> (passes[p].pc # "paused")

\* ------------------------------------------ the debounce, with a clock
\* handleFileChange, its timer and processFiles (main.ts:435-514) with the
\* time of day in milliseconds; a bulk pass is kept only as the interval in
\* which it holds isIndexing. The record args holds the clock, the armed
\* timer's deadline, the running pass and what the pass has left to do.
MaxClock == 8
DebounceWindow == 5000
ProviderDelay == 1000
Never == 0 - 1

NoTiming == [now |-> 0, fireAt |-> Never, lastEvent |-> Never,
             kind |-> "none", pc |-> "idle", files |-> <<>>,
             wakeAt |-> Never, lastReturn |-> Never, lastOk |-> TRUE]

InitTiming ==
    /\ Quiet
    /\ NoChat
    /\ result = <<>>
    /\ args = NoTiming

timingFixed == <<pauseIndexing, stopIndexing, fileChangeTimeout, armed, vault,
                 store, dateStore, settingVars, passes, layoutReady, inputs,
                 burst, queued, staleVars, result, chatVars>>

\* Time passes.
AdvanceClock ==
    /\ args.now < MaxClock * MsPerSecond
    /\ args' = [args EXCEPT !.now = args.now + MsPerSecond]
    /\ UNCHANGED <<isIndexing, pendingFileChanges, timingFixed>>

\* main.ts:435-456, 486: while isIndexing the path is only queued and the
\* timer is left as it is; otherwise the timer is cleared and armed anew.
HandleFileChangeAt(d) ==
    /\ pendingFileChanges' = pendingFileChanges \cup {d}
    /\ args' = IF isIndexing
                  THEN [args EXCEPT !.lastEvent = args.now]
                  ELSE [args EXCEPT !.lastEvent = args.now,
                                    !.fireAt = args.now + DebounceWindow]
    /\ UNCHANGED <<isIndexing, timingFixed>>

\* main.ts:313-321: a bulk pass takes isIndexing.
BulkPassStarts ==
    /\ ~isIndexing
    /\ args.kind = "none"
    /\ isIndexing' = TRUE
    /\ args' = [args EXCEPT !.kind = "bulk"]
    /\ UNCHANGED <<pendingFileChanges, timingFixed>>

\* main.ts:404-406: and gives it back.
BulkPassEnds ==
    /\ args.kind = "bulk"
    /\ isIndexing' = FALSE
    /\ args' = [args EXCEPT !.kind = "none"]
    /\ UNCHANGED <<pendingFileChanges, timingFixed>>

\* main.ts:456-460: the timer's callback, no sooner than its deadline.
TimerFiresAt ==
    /\ args.fireAt # Never
    /\ args.now >= args.fireAt
    /\ IF pendingFileChanges # {} /\ ~isIndexing
          THEN /\ isIndexing' = TRUE
               /\ args' = [args EXCEPT
                      !.fireAt = Never, !.kind = "incr", !.pc = "call",
                      !.files = SelectSeq(DocOrder, LAMBDA d :
                                    d \in pendingFileChanges)]
          ELSE /\ UNCHANGED isIndexing
               /\ args' = [args EXCEPT !.fireAt = Never]
    /\ UNCHANGED <<pendingFileChanges, timingFixed>>

\* main.ts:496-499: the read, then the call to the provider; a failed read
\* goes to the next file (main.ts:509-512).
ProviderCall ==
    /\ args.kind = "incr"
    /\ args.pc = "call"
    /\ args.files # <<>>
    /\ \E readOk \in BOOLEAN :
          args' = IF readOk
                     THEN [args EXCEPT !.pc = "inflight"]
                     ELSE [args EXCEPT !.files = Tail(args.files)]
    /\ UNCHANGED <<isIndexing, pendingFileChanges, timingFixed>>

\* main.ts:499-512: the call returns; after a save the loop waits a second
\* (main.ts:508), after a failure the catch goes straight to the next file.
ProviderReturn ==
    /\ args.kind = "incr"
    /\ args.pc = "inflight"
    /\ \E ok \in BOOLEAN :
          args' = IF ok
                     THEN [args EXCEPT !.pc = "delay",
                                       !.files = Tail(args.files),
                                       !.lastReturn = args.now,
                                       !.lastOk = TRUE,
                                       !.wakeAt = args.now + ProviderDelay]
                     ELSE [args EXCEPT !.pc = "call",
                                       !.files = Tail(args.files),
                                       !.lastReturn = args.now,
                                       !.lastOk = FALSE]
    /\ UNCHANGED <<isIndexing, pendingFileChanges, timingFixed>>

\* main.ts:508: the delay's timer, no sooner than its deadline.
DelayDone ==
    /\ args.kind = "incr"
    /\ args.pc = "delay"
    /\ args.now >= args.wakeAt
    /\ args' = [args EXCEPT !.pc = "call", !.wakeAt = Never]
    /\ UNCHANGED <<isIndexing, pendingFileChanges, timingFixed>>

\* main.ts:481-484: the end of the pass.
IncrPassEnds ==
    /\ args.kind = "incr"
    /\ args.pc = "call"
    /\ args.files = <<>>
    /\ isIndexing' = FALSE
    /\ pendingFileChanges' = {}
    /\ args' = [args EXCEPT !.kind = "none", !.pc = "idle",
                            !.lastReturn = Never, !.lastOk = TRUE]
    /\ UNCHANGED timingFixed

NextTiming ==
    \/ AdvanceClock
    \/ \E d \in Docs : HandleFileChangeAt(d)
    \/ BulkPassStarts
    \/ BulkPassEnds
    \/ TimerFiresAt
    \/ ProviderCall
    \/ ProviderReturn
    \/ DelayDone
    \/ IncrPassEnds

SpecTiming == InitTiming /\ [][NextTiming]_vars

\* C21 (as claimed): during an incremental pass, a call to the embedding
\* provider is issued no sooner than one second after the previous call of
\* the pass returned, whether that call succeeded or failed.
C21_WaitBetweenCalls ==
    [][(args.kind = "incr" /\ args.pc = "call" /\ args'.pc = "inflight"
           /\ args.lastReturn # Never)
          => args.now - args.lastReturn >= ProviderDelay]_vars

\* C29 (as claimed): an incremental pass starts no sooner than one full
\* debounce window after the most recent change event received, events
\* that were only queued while another pass ran included.
C29_PassAfterFullWindow ==
    [][(args.kind # "incr" /\ args'.kind = "incr")
          => args.now - args.lastEvent >= DebounceWindow]_vars

====
